---- MODULE Spec2Model ----
(***************************************************************************)
(* Model of the RealSense Gazebo plugin (src/gzrs/gzrs_plugin.cc):         *)
(* Load (setup), OnNewFrame (color / ired1 / ired2 path), OnNewDepthFrame  *)
(* (depth path with the float -> uint16 device encoding) and OnUpdate.     *)
(*                                                                         *)
(* Depth samples are IEEE-754 binary32 values, kept exactly as a record    *)
(* [m, e] standing for m * 2^e with |m| < 2^24.  Lengths in metres that    *)
(* the source writes as decimal literals (0.3, 10.0, 0.001) are kept in    *)
(* thousandths of a metre, so that every comparison and the division by    *)
(* DEPTH_SCALE_M are computed on exact integers.                           *)
(***************************************************************************)
EXTENDS Integers, Sequences, FiniteSets, TLC

(***************************************************************************)
(* Bounds of the model.                                                    *)
(***************************************************************************)
\* largest image width and largest image height a camera reports
MaxDim == 2
\* the simulation clock runs from 0 to MaxTime
MaxTime == 1

(***************************************************************************)
(* Program constants.                                                      *)
(***************************************************************************)
\* #define DEPTH_NEAR_CLIP_M 0.3, in thousandths of a metre
DEPTH_NEAR_CLIP_M == 300
\* #define DEPTH_FAR_CLIP_M 10.0, in thousandths of a metre
DEPTH_FAR_CLIP_M == 10000
\* #define DEPTH_SCALE_M 0.001, in thousandths of a metre
DEPTH_SCALE_M == 1
\* UINT16_MAX of <cstdint>, as used on line 316
UINT16_MAX == 65535
\* sizeof(*depthDataFloat): a float is 4 bytes
SizeofFloat == 4
\* sizeof(*depthMap.data()): a uint16_t is 2 bytes
SizeofUint16 == 2

NULL == "nullptr"

DEPTH_CAMERA_NAME == "depth"
COLOR_CAMERA_NAME == "color"
IRED1_CAMERA_NAME == "ired1"
IRED2_CAMERA_NAME == "ired2"

DEPTH_CAMERA_TOPIC == "depth"
COLOR_CAMERA_TOPIC == "color"
IRED1_CAMERA_TOPIC == "infrared"
IRED2_CAMERA_TOPIC == "infrared2"
\* the view topic without its suffix
DepthViewTopicWithoutSuffix == DEPTH_CAMERA_TOPIC

\* DEPTH_CAMERA_TOPIC + "_view"
DEPTH_VIEW_TOPIC == DEPTH_CAMERA_TOPIC \o "_view"

\* rsModel->GetName(): the name the world gives the model
ModelName == "rs_camera"

\* "~/" + rsModel->GetName() + "/rs/stream/"
rsTopicRoot == "~/" \o ModelName \o "/rs/stream/"

CameraNames ==
  {DEPTH_CAMERA_NAME, IRED1_CAMERA_NAME, IRED2_CAMERA_NAME, COLOR_CAMERA_NAME}

(***************************************************************************)
(* binary32 depth samples.                                                 *)
(***************************************************************************)
Abs(x) == IF x < 0 THEN -x ELSE x

\* the float m * 2^e
Float32(m, e) == [m |-> m, e |-> e]

\* m has reached 24 significant bits: round the rest r/den to nearest, ties
\* to even
RoundMantissa(m, r, den, e) ==
  LET up == 2 * r > den \/ (2 * r = den /\ m % 2 = 1)
      m2 == IF up THEN m + 1 ELSE m
  IN  IF m2 = 2^24 THEN Float32(2^23, e + 1) ELSE Float32(m2, e)

\* binary long division of r/den below the integer part m, until the mantissa
\* holds 24 significant bits (or the smallest binary32 exponent is reached)
RECURSIVE Normalize(_, _, _, _)
Normalize(m, r, den, e) ==
  IF m >= 2^23 \/ e = -149
  THEN RoundMantissa(m, r, den, e)
  ELSE Normalize(2 * m + (IF 2 * r >= den THEN 1 ELSE 0), (2 * r) % den, den,
                 e - 1)

\* the binary32 value a decimal num/den is stored as: the nearest float
\* (|num/den| < 2^24, den <= 10^6)
ToFloat32(num, den) ==
  IF num = 0 THEN Float32(0, 0)
  ELSE LET a == Abs(num)
           f == Normalize(a \div den, a % den, den, 0)
       IN  IF num < 0 THEN Float32(-f.m, f.e) ELSE f

\* floor(1000 * v) for the float v = m * 2^e, i.e. floor(m * 125 * 2^(e+3));
\* |m| * 125 < 2^31
FloorThousandths(v) ==
  LET k == -(v.e + 3)
  IN  IF k >= 31 THEN (IF v.m < 0 THEN -1 ELSE 0)
      ELSE IF k >= 0 THEN (v.m * 125) \div (2^k)
      ELSE v.m * 125 * 2^(-k)

\* 1000 * v is an integer
ExactThousandths(v) ==
  LET k == -(v.e + 3)
  IN  IF k >= 31 THEN v.m = 0
      ELSE IF k >= 0 THEN (v.m * 125) % (2^k) = 0
      ELSE TRUE

\* v < t/1000 and v > t/1000, the float promoted to double and compared with
\* the double nearest t/1000: no binary32 value lies between t/1000 and that
\* double for the thresholds 0, 0.3, 10.0 and 65.535
FloatLess(v, t) == FloorThousandths(v) < t
FloatGreater(v, t) ==
  FloorThousandths(v) > t \/ (FloorThousandths(v) = t /\ ~ExactThousandths(v))

\* the integer part of v / DEPTH_SCALE_M (the double quotient, truncated toward
\* zero by the cast): for a binary32 v in [0.3, 10] the double division by 0.001
\* errs by less than 2e-12 while 1000 * v is an integer or at least 2^-22 away
\* from one, so the truncated quotient is that of the exact division
DivScale(v) ==
  LET f == FloorThousandths(v)
      t == IF f < 0 /\ ~ExactThousandths(v) THEN f + 1 ELSE f
  IN  IF t >= 0 THEN t \div DEPTH_SCALE_M ELSE -((-t) \div DEPTH_SCALE_M)

\* (uint16_t) x: the low 16 bits
CastUint16(x) == x % 65536

EncodeNoFarClip(v) ==
  IF \/ FloatLess(v, DEPTH_NEAR_CLIP_M)
     \/ FloatGreater(v, DEPTH_SCALE_M * UINT16_MAX)
     \/ FloatLess(v, 0)
  THEN 0
  ELSE CastUint16(DivScale(v))

\* the loop body without the near-clip test
EncodeNoNearClip(v) ==
  IF \/ FloatGreater(v, DEPTH_FAR_CLIP_M)
     \/ FloatGreater(v, DEPTH_SCALE_M * UINT16_MAX)
     \/ FloatLess(v, 0)
  THEN 0
  ELSE CastUint16(DivScale(v))

\* one iteration of the conversion loop: the value stored in depthMap[i] for
\* the sample v = depthDataFloat[i]
Encode(v) ==
  IF \/ FloatLess(v, DEPTH_NEAR_CLIP_M)
     \/ FloatGreater(v, DEPTH_FAR_CLIP_M)
     \/ FloatGreater(v, DEPTH_SCALE_M * UINT16_MAX)
     \/ FloatLess(v, 0)
  THEN 0
  ELSE CastUint16(DivScale(v))

\* the depth samples a rendered depth map is made of: floats given by the
\* decimal they are the nearest float of, and the two floats next to the clip
\* bounds
DepthSamples ==
  << ToFloat32(5, 10),              \* 0.5
     ToFloat32(11, 1),              \* 11.0
     ToFloat32(-1, 10),             \* -0.1
     ToFloat32(9999, 1000),         \* 9.999
     ToFloat32(10, 1),              \* 10.0
     Float32(10485761, -20),        \* the float after 10.0
     ToFloat32(101, 10),            \* 10.1
     ToFloat32(3, 10),              \* 0.3
     Float32(10066329, -25),        \* the float before 0.3f
     ToFloat32(5, 10000),           \* 0.0005
     ToFloat32(-1, 1),              \* -1.0
     ToFloat32(70, 1) >>            \* 70.0, beyond DEPTH_SCALE_M * UINT16_MAX

\* the depth maps of n pixels the camera renders: the samples from position
\* 1, 5, 9, ... on
NumDepthFrames == Len(DepthSamples) \div 4
DepthFrame(k, n) ==
  [i \in 1..n |-> DepthSamples[((4 * (k - 1) + i - 1) % Len(DepthSamples)) + 1]]

(***************************************************************************)
(* The rendering collaborator's image cameras.                             *)
(***************************************************************************)
\* cam->ImageFormat(): the infrared cameras render 8-bit luminance, the color
\* camera 8-bit RGB
ImageFormat(cam) == IF cam = COLOR_CAMERA_NAME THEN "R8G8B8" ELSE "L8"

\* Camera::ImageDepth(): bytes per pixel of the camera's format
ImageDepthOf(format) == IF format = "L8" THEN 1 ELSE 3

\* the bytes per pixel the depth camera reports (its ImageDepth())
DepthImageDepths == {2, 4}

\* common::Image::ConvertPixelFormat(cam->ImageFormat())
ConvertPixelFormat(format) == IF format = "L8" THEN "L_INT8" ELSE "RGB_INT8"

\* the raw pixel buffer behind cam->ImageData(): len bytes
ImageBuffer(len) == [i \in 1..len |-> i % 256]

\* the byte size of a frame's geometry: ImageDepth * ImageWidth * ImageHeight
ByteSize(width, height, format) == ImageDepthOf(format) * width * height

\* the geometries (width, height) of the image cameras
ImageSizes == {<<1, 1>>, <<2, 1>>, <<1, 2>>, <<2, 2>>}

\* the frames of the image camera cam as the callback finds them: geometry,
\* format and the raw buffer, whose length is the geometry's byte size or one
\* off it
ImageFrames(cam) ==
  { [width |-> x[1][1], height |-> x[1][2], format |-> ImageFormat(cam),
     data |-> ImageBuffer(ByteSize(x[1][1], x[1][2], ImageFormat(cam)) + x[2])] :
      x \in ImageSizes \X {-1, 0, 1} }

\* bytes found behind the end of a buffer that is read past its end
GarbageBytes == {255}

(***************************************************************************)
(* State.                                                                  *)
(***************************************************************************)
VARIABLES
  status,             \* "constructed", "unbound", "ready" or "crashed"
  depthCam, ired1Cam, ired2Cam, colorCam,                 \* camera handles
  depthViewPub, depthPub, ired1Pub, ired2Pub, colorPub,   \* publishers
  newDepthFrameConn, newIred1FrameConn, newIred2FrameConn,
  newColorFrameConn, updateConnection,                    \* subscriptions
  depthMap,           \* std::vector<uint16_t> depthMap
  simTime,            \* world->GetSimTime()
  imageWidth, imageHeight,  \* the depth camera's ImageWidth(), ImageHeight()
  published,          \* the messages the latest callback published, in order
  lastCall            \* the latest operation and what it was given

handles == <<depthCam, ired1Cam, ired2Cam, colorCam>>
publishers == <<depthViewPub, depthPub, ired1Pub, ired2Pub, colorPub>>
connections ==
  <<newDepthFrameConn, newIred1FrameConn, newIred2FrameConn, newColorFrameConn,
    updateConnection>>
depthGeometry == <<imageWidth, imageHeight>>
vars ==
  <<status, handles, publishers, connections, depthMap, simTime, depthGeometry,
    published, lastCall>>

\* an event connection to the callback cb bound (std::bind) to cam and pub
Bind(cb, cam, pub) == [cb |-> cb, cam |-> cam, pub |-> pub]

\* an event::ConnectionPtr that holds no connection
NoConnection == Bind(NULL, NULL, NULL)

\* the last call and what the camera reported in it (imageDepth: the bytes per
\* pixel of its ImageDepth())
Call(op, cam, width, height, format, imageDepth, data, alloc) ==
  [op |-> op, cam |-> cam, width |-> width, height |-> height,
   format |-> format, imageDepth |-> imageDepth, data |-> data,
   alloc |-> alloc]

NoCall == Call("none", NULL, 0, 0, NULL, 0, <<>>, "none")

\* the RealSensePlugin constructor, in a world whose depth camera has some
\* geometry
Init ==
  /\ status = "constructed"
  /\ depthCam = NULL /\ ired1Cam = NULL /\ ired2Cam = NULL /\ colorCam = NULL
  /\ depthViewPub = NULL /\ depthPub = NULL /\ ired1Pub = NULL
  /\ ired2Pub = NULL /\ colorPub = NULL
  /\ newDepthFrameConn = NoConnection /\ newIred1FrameConn = NoConnection
  /\ newIred2FrameConn = NoConnection /\ newColorFrameConn = NoConnection
  /\ updateConnection = NoConnection
  /\ depthMap = <<>>
  /\ simTime = 0
  /\ imageWidth \in 1..MaxDim /\ imageHeight \in 1..MaxDim
  /\ published = <<>>
  /\ lastCall = NoCall

(***************************************************************************)
(* Load.                                                                   *)
(***************************************************************************)
\* what smanager->GetSensor(name) finds, per camera: no such sensor ("absent":
\* the null SensorPtr), a sensor without a renderer ("nocamera": its Camera()
\* is null), or a sensor with its camera ("ok")
SensorStates == {"absent", "nocamera", "ok"}

LookupOrder ==
  <<DEPTH_CAMERA_NAME, IRED1_CAMERA_NAME, IRED2_CAMERA_NAME, COLOR_CAMERA_NAME>>

\* the lookups that run before a null sensor pointer is dereferenced: all four,
\* or those before the first absent sensor
LookupsDone(sensors) ==
  IF \E i \in 1..4 : sensors[LookupOrder[i]] = "absent"
  THEN (CHOOSE i \in 1..4 :
          /\ sensors[LookupOrder[i]] = "absent"
          /\ \A j \in 1..(i - 1) : sensors[LookupOrder[j]] # "absent") - 1
  ELSE 4

\* the handle stored by the i-th lookup
Resolved(sensors, i) ==
  IF i <= LookupsDone(sensors) /\ sensors[LookupOrder[i]] = "ok"
  THEN LookupOrder[i]
  ELSE NULL

\* transportNode->Advertise<msgs::ImageStamped>(topic, 1, DEPTH_PUB_FREQ_HZ): a
\* publisher handle, identified by the topic it is bound to
Advertise(topic) == topic

\* Load without the four null checks
LoadWithoutNullChecks(sensors) ==
  /\ status = "constructed"
  /\ depthCam' = Resolved(sensors, 1)
  /\ ired1Cam' = Resolved(sensors, 2)
  /\ ired2Cam' = Resolved(sensors, 3)
  /\ colorCam' = Resolved(sensors, 4)
  /\ lastCall' = Call("Load", NULL, 0, 0, NULL, 0, <<>>, "none")
  /\ IF LookupsDone(sensors) < 4
     THEN /\ status' = "crashed"
          /\ UNCHANGED <<publishers, connections>>
     ELSE /\ depthViewPub' = Advertise(rsTopicRoot \o DEPTH_VIEW_TOPIC)
          /\ depthPub' = Advertise(rsTopicRoot \o DEPTH_CAMERA_TOPIC)
          /\ ired1Pub' = Advertise(rsTopicRoot \o IRED1_CAMERA_TOPIC)
          /\ ired2Pub' = Advertise(rsTopicRoot \o IRED2_CAMERA_TOPIC)
          /\ colorPub' = Advertise(rsTopicRoot \o COLOR_CAMERA_TOPIC)
          /\ newDepthFrameConn' = Bind("OnNewDepthFrame", NULL, NULL)
          /\ newIred1FrameConn' = Bind("OnNewFrame", ired1Cam', ired1Pub')
          /\ newIred2FrameConn' = Bind("OnNewFrame", ired2Cam', ired2Pub')
          /\ newColorFrameConn' = Bind("OnNewFrame", colorCam', colorPub')
          /\ updateConnection' = Bind("OnUpdate", NULL, NULL)
          /\ status' = "ready"
  /\ UNCHANGED <<depthMap, simTime, depthGeometry, published>>

\* RealSensePlugin::Load: the four lookups, the four null checks, then the
\* publishers and the subscriptions.  Dereferencing the null sensor pointer of
\* an absent sensor (->DepthCamera(), ->Camera()) ends the process.
Load(sensors) ==
  /\ status = "constructed"
  /\ depthCam' = Resolved(sensors, 1)
  /\ ired1Cam' = Resolved(sensors, 2)
  /\ ired2Cam' = Resolved(sensors, 3)
  /\ colorCam' = Resolved(sensors, 4)
  /\ lastCall' = Call("Load", NULL, 0, 0, NULL, 0, <<>>, "none")
  /\ IF LookupsDone(sensors) < 4
     THEN /\ status' = "crashed"
          /\ UNCHANGED <<publishers, connections>>
     ELSE IF \/ depthCam' = NULL \/ ired1Cam' = NULL
             \/ ired2Cam' = NULL \/ colorCam' = NULL
     THEN /\ status' = "unbound"
          /\ UNCHANGED <<publishers, connections>>
     ELSE /\ depthViewPub' = Advertise(rsTopicRoot \o DEPTH_VIEW_TOPIC)
          /\ depthPub' = Advertise(rsTopicRoot \o DEPTH_CAMERA_TOPIC)
          /\ ired1Pub' = Advertise(rsTopicRoot \o IRED1_CAMERA_TOPIC)
          /\ ired2Pub' = Advertise(rsTopicRoot \o IRED2_CAMERA_TOPIC)
          /\ colorPub' = Advertise(rsTopicRoot \o COLOR_CAMERA_TOPIC)
          /\ newDepthFrameConn' = Bind("OnNewDepthFrame", NULL, NULL)
          /\ newIred1FrameConn' = Bind("OnNewFrame", ired1Cam', ired1Pub')
          /\ newIred2FrameConn' = Bind("OnNewFrame", ired2Cam', ired2Pub')
          /\ newColorFrameConn' = Bind("OnNewFrame", colorCam', colorPub')
          /\ updateConnection' = Bind("OnUpdate", NULL, NULL)
          /\ status' = "ready"
  /\ UNCHANGED <<depthMap, simTime, depthGeometry, published>>

(***************************************************************************)
(* Messages and publishing.                                                *)
(***************************************************************************)
\* a message whose set_step is given the width alone
ImageStampedStepInPixels(time, width, height, pixel_format, step, data, size) ==
  [time |-> time, width |-> width, height |-> height,
   pixel_format |-> pixel_format, step |-> width, data |-> data, size |-> size]

\* msgs::ImageStamped as filled by the callbacks; size is the byte count
\* handed to set_data
ImageStamped(time, width, height, pixel_format, step, data, size) ==
  [time |-> time, width |-> width, height |-> height,
   pixel_format |-> pixel_format, step |-> step, data |-> data, size |-> size]

\* pub->Publish(msg)
Publish(pub, msg) == [pub |-> pub, msg |-> msg]

\* set_data(buffer, size) of a byte buffer: the first size bytes, followed by
\* the bytes tail found behind the buffer when size exceeds its length
SetData(buffer, size, tail) ==
  IF size <= Len(buffer) THEN SubSeq(buffer, 1, size) ELSE buffer \o tail

(***************************************************************************)
(* OnNewFrame.                                                             *)
(***************************************************************************)
\* OnNewFrame with set_width and set_height given each other's argument
OnNewFrameSwapsGeometry(conn, frame, tail) ==
  LET size == ImageDepthOf(frame.format) * frame.width * frame.height
      msg == ImageStamped(simTime, frame.height, frame.width,
                          ConvertPixelFormat(frame.format),
                          frame.width * ImageDepthOf(frame.format),
                          SetData(frame.data, size, tail), size)
  IN  /\ published' = <<Publish(conn.pub, msg)>>
      /\ lastCall' = Call("OnNewFrame", conn.cam, frame.width, frame.height,
                          frame.format, ImageDepthOf(frame.format), frame.data,
                          "none")
      /\ UNCHANGED <<status, handles, publishers, connections, depthMap,
                     simTime, depthGeometry>>

\* RealSensePlugin::OnNewFrame(cam, pub) with the camera in the state frame
OnNewFrame(conn, frame, tail) ==
  LET size == ImageDepthOf(frame.format) * frame.width * frame.height
      msg == ImageStamped(simTime, frame.width, frame.height,
                          ConvertPixelFormat(frame.format),
                          frame.width * ImageDepthOf(frame.format),
                          SetData(frame.data, size, tail), size)
  IN  /\ published' = <<Publish(conn.pub, msg)>>
      /\ lastCall' = Call("OnNewFrame", conn.cam, frame.width, frame.height,
                          frame.format, ImageDepthOf(frame.format), frame.data,
                          "none")
      /\ UNCHANGED <<status, handles, publishers, connections, depthMap,
                     simTime, depthGeometry>>

\* reading past the end of the raw buffer ends the process instead
OnNewFrameCrash(conn, frame) ==
  /\ ImageDepthOf(frame.format) * frame.width * frame.height > Len(frame.data)
  /\ status' = "crashed"
  /\ published' = <<>>
  /\ lastCall' = Call("OnNewFrame", conn.cam, frame.width, frame.height,
                      frame.format, ImageDepthOf(frame.format), frame.data,
                          "none")
  /\ UNCHANGED <<handles, publishers, connections, depthMap, simTime,
                 depthGeometry>>

\* the tails a read of size bytes of buffer can find
Tails(buffer, size) ==
  IF size <= Len(buffer) THEN {<<>>}
  ELSE [1..(size - Len(buffer)) -> GarbageBytes]

\* a new image frame of the camera subscribed with conn
NewImageFrame(conn) ==
  /\ status = "ready"
  /\ conn # NoConnection
  /\ \E frame \in ImageFrames(conn.cam) :
       \/ \E tail \in Tails(frame.data,
                            ImageDepthOf(frame.format) * frame.width * frame.height) :
            OnNewFrame(conn, frame, tail)
       \/ OnNewFrameCrash(conn, frame)

NewIred1Frame == NewImageFrame(newIred1FrameConn)
NewIred2Frame == NewImageFrame(newIred2FrameConn)
NewColorFrame == NewImageFrame(newColorFrameConn)

(***************************************************************************)
(* OnNewDepthFrame.                                                        *)
(***************************************************************************)
\* a resize to one element more than asked
ResizeOneMore(vec, n) ==
  IF n + 1 <= Len(vec) THEN SubSeq(vec, 1, n + 1)
  ELSE vec \o [i \in 1..(n + 1 - Len(vec)) |-> 0]

\* depthMap.resize(n): truncated, or extended with zeros
Resize(vec, n) ==
  IF n <= Len(vec) THEN SubSeq(vec, 1, n)
  ELSE vec \o [i \in 1..(n - Len(vec)) |-> 0]

\* a resize on every frame, without the size check
TryResizeAlways(vec, n, allocOk) ==
  IF n > Len(vec) /\ ~allocOk THEN [alloc |-> "failed", vec |-> vec]
  ELSE [alloc |-> "ok", vec |-> Resize(vec, n)]

\* the size check with a failed allocation emptying the vector
TryResizeClearsOnFailure(vec, n, allocOk) ==
  IF Len(vec) = n THEN [alloc |-> "none", vec |-> vec]
  ELSE IF n > Len(vec) /\ ~allocOk THEN [alloc |-> "failed", vec |-> <<>>]
  ELSE [alloc |-> "ok", vec |-> Resize(vec, n)]

\* the size check resizing only a vector that is too short
TryResizeGrowsOnly(vec, n, allocOk) ==
  IF Len(vec) >= n THEN [alloc |-> "none", vec |-> vec]
  ELSE IF ~allocOk THEN [alloc |-> "failed", vec |-> vec]
  ELSE [alloc |-> "ok", vec |-> Resize(vec, n)]

\* the size check of lines 279-291: no resize when the size matches; a resize
\* that has to allocate (the vector grows) throws std::bad_alloc when the
\* allocation fails (allocOk is false) and then leaves the vector as it was
TryResize(vec, n, allocOk) ==
  IF Len(vec) = n THEN [alloc |-> "none", vec |-> vec]
  ELSE IF n > Len(vec) /\ ~allocOk THEN [alloc |-> "failed", vec |-> vec]
  ELSE [alloc |-> "ok", vec |-> Resize(vec, n)]

\* the indices i + 1 the conversion loop visits: i = 0 .. imageSize-1
LoopIndices(imageSize) == 1..imageSize

\* the conversion loop that skips a clipped sample instead of writing 0
EncodeLoopSkipsClipped(vec, depthDataFloat, imageSize) ==
  [i \in 1..Len(vec) |->
     IF i \in LoopIndices(imageSize) /\ Encode(depthDataFloat[i]) # 0
     THEN Encode(depthDataFloat[i])
     ELSE vec[i]]

\* the conversion loop that stops one sample early
EncodeLoopStopsEarly(vec, depthDataFloat, imageSize) ==
  [i \in 1..Len(vec) |->
     IF i \in LoopIndices(imageSize - 1) THEN Encode(depthDataFloat[i])
     ELSE vec[i]]

\* the conversion loop: depthMap[i] is overwritten for every visited index
EncodeLoop(vec, depthDataFloat, imageSize) ==
  [i \in 1..Len(vec) |->
     IF i \in LoopIndices(imageSize) THEN Encode(depthDataFloat[i])
     ELSE vec[i]]

\* RealSensePlugin::OnNewDepthFrame with the depth map depthDataFloat behind
\* DepthData(); allocOk: an allocation of a larger depthMap succeeds;
\* imageDepth: the depth camera's ImageDepth(); elapsed: by how much the
\* world's clock advances between the two GetSimTime() calls
OnNewDepthFrame(depthDataFloat, imageDepth, allocOk, elapsed) ==
  LET imageSize == imageWidth * imageHeight
      sized == TryResize(depthMap, imageSize, allocOk)
      view == ImageStamped(simTime, imageWidth, imageHeight, "R_FLOAT32",
                           imageWidth * imageDepth, depthDataFloat,
                           SizeofFloat * imageSize)
      encoded == EncodeLoop(sized.vec, depthDataFloat, imageSize)
      scaled == ImageStamped(simTime + elapsed, imageWidth, imageHeight,
                             "L_INT16", imageWidth * imageDepth, encoded,
                             SizeofUint16 * imageSize)
  IN  /\ lastCall' = Call("OnNewDepthFrame", depthCam, imageWidth, imageHeight,
                          NULL,
                          IF sized.alloc = "failed" THEN 0 ELSE imageDepth,
                          depthDataFloat, sized.alloc)
      /\ IF sized.alloc = "failed"
         THEN /\ depthMap' = sized.vec
              /\ published' = <<>>
              /\ UNCHANGED simTime
         ELSE /\ depthMap' = encoded
              /\ simTime' = simTime + elapsed
              /\ published' =
                   <<Publish(depthViewPub, view), Publish(depthPub, scaled)>>
      /\ UNCHANGED <<status, handles, publishers, connections, depthGeometry>>

\* a new depth frame: the depth camera renders a depth map of its current
\* geometry and notifies the subscriber
NewDepthFrame ==
  /\ status = "ready"
  /\ newDepthFrameConn # NoConnection
  /\ \E k \in 1..NumDepthFrames, imageDepth \in DepthImageDepths,
        allocOk \in BOOLEAN, elapsed \in 0..(MaxTime - simTime) :
       /\ elapsed <= 1
       /\ OnNewDepthFrame(DepthFrame(k, imageWidth * imageHeight), imageDepth,
                          allocOk, elapsed)

(***************************************************************************)
(* OnUpdate and the collaborators' own steps.                              *)
(***************************************************************************)
\* OnUpdate dropping the depth camera's subscription
OnUpdateUnsubscribes ==
  /\ status = "ready"
  /\ updateConnection # NoConnection
  /\ published' = <<>>
  /\ newDepthFrameConn' = NoConnection
  /\ lastCall' = Call("OnUpdate", NULL, 0, 0, NULL, 0, <<>>, "none")
  /\ UNCHANGED <<status, handles, publishers, newIred1FrameConn,
                 newIred2FrameConn, newColorFrameConn, updateConnection,
                 depthMap, simTime, depthGeometry>>

\* OnUpdate releasing the depth buffer
OnUpdateClearsBuffer ==
  /\ status = "ready"
  /\ updateConnection # NoConnection
  /\ published' = <<>>
  /\ depthMap' = <<>>
  /\ lastCall' = Call("OnUpdate", NULL, 0, 0, NULL, 0, <<>>, "none")
  /\ UNCHANGED <<status, handles, publishers, connections, simTime,
                 depthGeometry>>

\* RealSensePlugin::OnUpdate: empty
OnUpdate ==
  /\ status = "ready"
  /\ updateConnection # NoConnection
  /\ published' = <<>>
  /\ lastCall' = Call("OnUpdate", NULL, 0, 0, NULL, 0, <<>>, "none")
  /\ UNCHANGED <<status, handles, publishers, connections, depthMap, simTime,
                 depthGeometry>>

\* the world steps its clock
Tick ==
  /\ status # "crashed"
  /\ simTime < MaxTime
  /\ simTime' = simTime + 1
  /\ UNCHANGED <<status, handles, publishers, connections, depthMap,
                 depthGeometry, published, lastCall>>

\* the depth camera's resolution changes between frames
SetImageSize ==
  /\ status # "crashed"
  /\ \E w \in 1..MaxDim, h \in 1..MaxDim :
       /\ <<w, h>> # <<imageWidth, imageHeight>>
       /\ imageWidth' = w
       /\ imageHeight' = h
       /\ lastCall' = Call("SetImageSize", DEPTH_CAMERA_NAME, w, h, NULL, 0,
                           <<>>, "none")
  /\ UNCHANGED <<status, handles, publishers, connections, depthMap, simTime,
                 published>>

LoadPlugin == \E sensors \in [CameraNames -> SensorStates] : Load(sensors)

Next ==
  \/ LoadPlugin
  \/ NewIred1Frame
  \/ NewIred2Frame
  \/ NewColorFrame
  \/ NewDepthFrame
  \/ OnUpdate
  \/ Tick
  \/ SetImageSize

Spec == Init /\ [][Next]_vars

(***************************************************************************)
(* Properties.                                                             *)
(***************************************************************************)
\* this step is a depth callback, or a step of the world's clock right after
\* one
DepthFrameStep == lastCall'.op = "OnNewDepthFrame"

\* the latest operation was a depth frame that went past the size check
DepthFrameProcessed ==
  lastCall.op = "OnNewDepthFrame" /\ lastCall.alloc # "failed"

\* v < 0, v < 0.3, v > 10.0 or v > 0.001 * 65535, on the exact value of the
\* float v, in thousandths of a metre
OutOfRange(v) ==
  LET f == FloorThousandths(v)
      whole == ExactThousandths(v)
  IN  \/ v.m < 0
      \/ f < 300
      \/ f > 10000 \/ (f = 10000 /\ ~whole)
      \/ f > 65535 \/ (f = 65535 /\ ~whole)

\* what the depth buffer holds for the float nearest the decimal num/den,
\* wherever the latest depth map holds that float
EncodesTo(num, den, out) ==
  \A i \in 1..Len(lastCall.data) :
    lastCall.data[i] = ToFloat32(num, den) => depthMap[i] = out

\* C1: after a depth frame that encodes, the sample written for every input
\* sample v is 0 if and only if v < 0, v < NEAR_CLIP, v > FAR_CLIP or
\* v > SCALE * 65535, and is floor(v / 0.001) otherwise; 0.3 gives 300, 0.0005
\* gives 0, 10.0 gives 10000, 10.1 gives 0 and -1.0 gives 0.
C1_DepthEncoder ==
  DepthFrameProcessed =>
    /\ \A i \in 1..Len(lastCall.data) :
         LET v == lastCall.data[i]
         IN  /\ depthMap[i] = 0 <=> OutOfRange(v)
             /\ ~OutOfRange(v) => depthMap[i] = FloorThousandths(v)
    /\ EncodesTo(3, 10, 300)
    /\ EncodesTo(5, 10000, 0)
    /\ EncodesTo(10, 1, 10000)
    /\ EncodesTo(101, 10, 0)
    /\ EncodesTo(-1, 1, 0)

\* a 2x2 depth frame of 10.0, the float after 10.0, 10.1 and 0.3 was encoded
C1_Witness ==
  /\ DepthFrameProcessed
  /\ lastCall.data = <<ToFloat32(10, 1), Float32(10485761, -20),
                       ToFloat32(101, 10), ToFloat32(3, 10)>>
  /\ depthMap = <<10000, 0, 0, 300>>

\* C2: the view message and the primary message of a depth frame carry the
\* same simulation timestamp.
C2_SameTimestamp ==
  (DepthFrameProcessed /\ Len(published) = 2) =>
    published[1].msg.time = published[2].msg.time

\* the 2x2 depth map [0.5, 11.0, -0.1, 9.999] as the floats it is stored as
ScenarioMap ==
  <<ToFloat32(5, 10), ToFloat32(11, 1), ToFloat32(-1, 10),
    ToFloat32(9999, 1000)>>

\* a processed depth frame published the view message with the float map,
\* then the primary message with the depth buffer encoded from that map
TwoPublishesInOrder ==
  DepthFrameProcessed =>
    /\ Len(published) = 2
    /\ published[1].pub = "~/rs_camera/rs/stream/depth_view"
    /\ published[1].msg.pixel_format = "R_FLOAT32"
    /\ published[1].msg.data = lastCall.data
    /\ published[2].pub = "~/rs_camera/rs/stream/depth"
    /\ published[2].msg.pixel_format = "L_INT16"
    /\ published[2].msg.data = depthMap
    /\ Len(depthMap) = Len(lastCall.data)
    /\ \A i \in 1..Len(lastCall.data) :
         depthMap[i] = (IF OutOfRange(lastCall.data[i]) THEN 0
                        ELSE FloorThousandths(lastCall.data[i]))

\* C3 as stated: every depth frame whose buffer sizing succeeds publishes the
\* view message (float map, 32-bit float) and then the primary message (the
\* encoded buffer, 16-bit int); the map [0.5, 11.0, -0.1, 9.999] yields the
\* primary payload [500, 0, 0, 9999].
C3_AsStated ==
  /\ TwoPublishesInOrder
  /\ (DepthFrameProcessed /\ lastCall.data = ScenarioMap) =>
       published[2].msg.data = <<500, 0, 0, 9999>>

\* C3 amended: the same two publishes in the same order; the map
\* [0.5, 11.0, -0.1, 9.999], held as 32-bit floats, yields the primary payload
\* [500, 0, 0, 9998], the float nearest 9.999 being below 9.999.
C3_TwoPublishes ==
  /\ TwoPublishesInOrder
  /\ (DepthFrameProcessed /\ lastCall.data = ScenarioMap) =>
       published[2].msg.data = <<500, 0, 0, 9998>>

\* the scenario's depth frame was processed at 2x2
C3_Witness ==
  /\ DepthFrameProcessed
  /\ lastCall.width = 2 /\ lastCall.height = 2
  /\ lastCall.data = ScenarioMap
  /\ Len(published) = 2

\* some camera handle is still null after Load
SomeCameraUnresolved ==
  /\ status # "constructed"
  /\ \/ depthCam = NULL \/ ired1Cam = NULL
     \/ ired2Cam = NULL \/ colorCam = NULL

\* C4: when a camera cannot be resolved, setup ends with the dispatcher
\* unbound: no publisher, no subscription, no message; the dispatcher is
\* ready only when all four cameras resolved.
C4_UnboundOnMissingCamera ==
  SomeCameraUnresolved =>
    /\ status = "unbound"
    /\ depthViewPub = NULL /\ depthPub = NULL /\ ired1Pub = NULL
    /\ ired2Pub = NULL /\ colorPub = NULL
    /\ newDepthFrameConn = NoConnection /\ newIred1FrameConn = NoConnection
    /\ newIred2FrameConn = NoConnection /\ newColorFrameConn = NoConnection
    /\ published = <<>>

\* C5: a depth frame whose resize fails publishes nothing, leaves the buffer's
\* length and contents as they were and returns normally; it fails only when
\* the pixel count differs from the buffer length; a depth frame whose
\* allocation succeeds gives the buffer the camera's size and publishes both
\* messages.
C5_AllocationFailure ==
  [][DepthFrameStep =>
       IF lastCall'.alloc = "failed"
       THEN /\ Len(depthMap) # imageWidth * imageHeight
            /\ published' = <<>>
            /\ depthMap' = depthMap
            /\ status' = "ready"
       ELSE /\ Len(depthMap') = imageWidth * imageHeight
            /\ Len(published') = 2]_vars

\* a resize failed on a resolution change, with a buffer of an earlier frame
C5_Witness ==
  /\ lastCall.op = "OnNewDepthFrame"
  /\ lastCall.alloc = "failed"
  /\ depthMap # <<>>
  /\ Len(depthMap) # imageWidth * imageHeight
  /\ published = <<>>

\* C6: when the encode loop of a depth frame runs, the buffer's length is the
\* width * height read for that frame and the loop's indices lie within the
\* float map and within the buffer.
C6_EncodeWithinBounds ==
  [][(DepthFrameStep /\ lastCall'.alloc # "failed") =>
       /\ Len(depthMap') = imageWidth * imageHeight
       /\ LoopIndices(imageWidth * imageHeight) \subseteq DOMAIN depthMap'
       /\ LoopIndices(imageWidth * imageHeight) \subseteq DOMAIN lastCall'.data
       /\ DOMAIN depthMap' \subseteq LoopIndices(imageWidth * imageHeight)]_vars

\* a depth frame was encoded after a resize of the buffer to a single pixel
C6_Witness ==
  /\ DepthFrameProcessed
  /\ lastCall.alloc = "ok"
  /\ Len(depthMap) = 1

\* C7 as stated: once a depth frame was processed (the buffer is not empty),
\* the buffer's length is the camera's current width * height in every state.
C7_AsStated ==
  depthMap # <<>> => Len(depthMap) = imageWidth * imageHeight

\* C7 amended: the buffer's length is the camera's width * height in the state
\* a processed depth frame leaves, and stays so for as long as the camera's
\* resolution does not change.
C7_BufferLength ==
  /\ [](DepthFrameProcessed => Len(depthMap) = imageWidth * imageHeight)
  /\ [][(Len(depthMap) = imageWidth * imageHeight /\ UNCHANGED depthGeometry)
          => Len(depthMap') = imageWidth' * imageHeight']_vars

\* an image frame arrived after a processed depth frame, the sizes still equal
C7_Witness ==
  /\ lastCall.op = "OnNewFrame"
  /\ depthMap # <<>>
  /\ Len(depthMap) = imageWidth * imageHeight

\* the latest operation was an image callback whose raw buffer had the length
\* of the camera's geometry
ImageFrameDelivered ==
  /\ lastCall.op = "OnNewFrame"
  /\ Len(lastCall.data) =
       (IF lastCall.cam = COLOR_CAMERA_NAME THEN 3 ELSE 1)
         * lastCall.width * lastCall.height

\* C8: in the ready state every new frame of the color, ired1 or ired2 camera
\* can be delivered and is published exactly once, on that camera's own
\* publisher, with the camera's width, height, native pixel format and image
\* data.
C8_ImagePath ==
  /\ status = "ready" =>
       (ENABLED NewColorFrame /\ ENABLED NewIred1Frame /\ ENABLED NewIred2Frame)
  /\ ImageFrameDelivered =>
       /\ Len(published) = 1
       /\ published[1].pub =
            (CASE lastCall.cam = COLOR_CAMERA_NAME ->
                    "~/rs_camera/rs/stream/color"
               [] lastCall.cam = IRED1_CAMERA_NAME ->
                    "~/rs_camera/rs/stream/infrared"
               [] lastCall.cam = IRED2_CAMERA_NAME ->
                    "~/rs_camera/rs/stream/infrared2")
       /\ published[1].msg.width = lastCall.width
       /\ published[1].msg.height = lastCall.height
       /\ published[1].msg.pixel_format =
            (IF lastCall.cam = COLOR_CAMERA_NAME THEN "RGB_INT8" ELSE "L_INT8")
       /\ published[1].msg.data = lastCall.data

\* a 2x1 frame of the second infrared camera was published
C8_Witness ==
  /\ ImageFrameDelivered
  /\ lastCall.cam = IRED2_CAMERA_NAME
  /\ lastCall.width = 2 /\ lastCall.height = 1
  /\ Len(published) = 1
  /\ published[1].pub = "~/rs_camera/rs/stream/infrared2"

\* C9: the color, ired1 and ired2 callbacks and OnUpdate leave the depth
\* buffer's length and contents unchanged.
C9_BufferOnlyByDepthCallback ==
  [][lastCall'.op \in {"OnNewFrame", "OnUpdate"} => depthMap' = depthMap]_vars

\* an image callback or OnUpdate ran while the buffer held an encoded frame
C9_Witness ==
  /\ lastCall.op \in {"OnNewFrame", "OnUpdate"}
  /\ depthMap # <<>>
  /\ \E i \in 1..Len(depthMap) : depthMap[i] # 0

\* C10: an image callback whose raw buffer's length differs from the payload
\* length computed from width, height and bytes per pixel aborts and
\* publishes nothing; no published payload differs in length from the buffer.
C10_MalformedGeometryAborts ==
  lastCall.op = "OnNewFrame" =>
    /\ ~ImageFrameDelivered => (published = <<>> /\ status = "crashed")
    /\ \A i \in 1..Len(published) :
         published[i].msg.size = Len(lastCall.data)

\* C11: every published message has stride = width * the bytes per pixel its
\* source camera reports; the payload of a color, ired1 or ired2 message is
\* bytesPerPixel * width * height bytes, and the payload of the primary depth
\* message is 2 * width * height bytes (width * height 16-bit samples)
\* whatever bytes per pixel the depth camera reports.
C11_StrideAndPayload ==
  /\ lastCall.op \in {"OnNewFrame", "OnNewDepthFrame"} =>
       \A i \in 1..Len(published) :
         published[i].msg.step = published[i].msg.width * lastCall.imageDepth
  /\ (lastCall.op = "OnNewFrame" /\ published # <<>>) =>
       /\ lastCall.imageDepth =
            (IF lastCall.cam = COLOR_CAMERA_NAME THEN 3 ELSE 1)
       /\ published[1].msg.width = lastCall.width
       /\ published[1].msg.size =
            lastCall.imageDepth * lastCall.width * lastCall.height
       /\ Len(published[1].msg.data) = published[1].msg.size
  /\ DepthFrameProcessed =>
       /\ published[2].pub = depthPub
       /\ published[2].msg.width = lastCall.width
       /\ published[2].msg.size = 2 * lastCall.width * lastCall.height
       /\ Len(published[2].msg.data) = lastCall.width * lastCall.height
       /\ \A i \in 1..Len(published[2].msg.data) :
            published[2].msg.data[i] \in 0..65535

\* a depth camera reporting 4 bytes per pixel has delivered a 2x2 frame: the
\* primary message has stride 8 and a payload of 8 bytes
C11_Witness ==
  /\ DepthFrameProcessed
  /\ lastCall.imageDepth = 4
  /\ lastCall.width = 2 /\ lastCall.height = 2
  /\ published[2].msg.step = 8
  /\ published[2].msg.size = 8

\* the dispatcher holds the four cameras' new-frame subscriptions, each to its
\* own callback
Subscribed ==
  /\ newDepthFrameConn = [cb |-> "OnNewDepthFrame", cam |-> NULL, pub |-> NULL]
  /\ newIred1FrameConn =
       [cb |-> "OnNewFrame", cam |-> IRED1_CAMERA_NAME,
        pub |-> "~/rs_camera/rs/stream/infrared"]
  /\ newIred2FrameConn =
       [cb |-> "OnNewFrame", cam |-> IRED2_CAMERA_NAME,
        pub |-> "~/rs_camera/rs/stream/infrared2"]
  /\ newColorFrameConn =
       [cb |-> "OnNewFrame", cam |-> COLOR_CAMERA_NAME,
        pub |-> "~/rs_camera/rs/stream/color"]

\* the dispatcher holds no subscription
NotSubscribed ==
  \A i \in 1..4 : connections[i].cb = NULL

\* C12: once setup has reached ready the dispatcher holds one subscription per
\* camera, each made by the one Load that ran, and keeps all four for good
\* (no callback and no later step unsubscribes or rebinds); the only change of
\* the dispatcher's state is from unbound to ready, and a setup that ended
\* unbound is not retried.
C12_ReadyIsFinal ==
  /\ [](status = "ready" => Subscribed)
  /\ [](status \in {"constructed", "unbound"} => NotSubscribed)
  /\ [][Subscribed => (Subscribed' /\ connections' = connections)]_vars
  /\ [][(~Subscribed /\ Subscribed') =>
          (NotSubscribed /\ status = "constructed" /\ status' = "ready"
           /\ lastCall'.op = "Load")]_vars
  /\ [][status = "ready" => status' # "unbound" /\ status' # "constructed"]_vars
  /\ [][status = "unbound" =>
          (status' = "unbound" /\ NotSubscribed' /\ publishers' = publishers
           /\ handles' = handles)]_vars

\* setup reached ready and callbacks of two cameras and a clock step have run
\* since
C12_Witness ==
  /\ status = "ready"
  /\ Subscribed
  /\ lastCall.op = "OnNewFrame"
  /\ depthMap # <<>>
  /\ simTime >= 1

\* the last two calls were depth frames of the same map at the same resolution
SameFrameAgain ==
  /\ DepthFrameProcessed
  /\ DepthFrameProcessed'
  /\ lastCall'.data = lastCall.data
  /\ lastCall'.width = lastCall.width
  /\ lastCall'.height = lastCall.height

\* C13: encoding is idempotent and history-free: after a depth frame that
\* encodes, the device depth buffer is what the same frame leaves in a buffer
\* that was empty before it, whatever the buffer held; and a second frame with
\* the same depth map at the same resolution leaves the buffer as the first
\* left it.
C13_HistoryFree ==
  /\ [](DepthFrameProcessed =>
         LET n == lastCall.width * lastCall.height
         IN  depthMap = EncodeLoop(Resize(<<>>, n), lastCall.data, n))
  /\ [][SameFrameAgain => depthMap' = depthMap]_vars

\* a depth frame has been encoded into a buffer that an earlier frame of the
\* same size had filled, and has left both clipped and unclipped samples
C13_Witness ==
  /\ DepthFrameProcessed
  /\ lastCall.alloc = "none"
  /\ \E i, j \in 1..Len(depthMap) : depthMap[i] = 0 /\ depthMap[j] # 0

\* this step is a run of the depth callback (a step of the world's clock
\* changes none of the three)
DepthCallbackStep ==
  /\ lastCall'.op = "OnNewDepthFrame"
  /\ lastCall' # lastCall \/ published' # published \/ depthMap' # depthMap

\* the depth callback ran last, at the depth camera's present resolution
DepthFrameAtThisSize ==
  /\ lastCall.op = "OnNewDepthFrame"
  /\ lastCall.width = imageWidth
  /\ lastCall.height = imageHeight

\* C14: a depth frame attempts a resize exactly when width*height differs
\* from the length of the device depth buffer; a frame whose width*height
\* equals that length leaves the length alone; and of two consecutive depth
\* frames at the same resolution at most one resizes the buffer (after a
\* frame that passed the size check the next one attempts none).
C14_ResizeOnlyOnChange ==
  /\ [][DepthCallbackStep =>
          ((lastCall'.alloc = "none") <=>
             (Len(depthMap) = imageWidth * imageHeight))]_vars
  /\ [][(DepthCallbackStep /\ Len(depthMap) = imageWidth * imageHeight) =>
          Len(depthMap') = Len(depthMap)]_vars
  /\ [][(DepthCallbackStep /\ DepthFrameAtThisSize) =>
          /\ ~(lastCall.alloc = "ok" /\ lastCall'.alloc = "ok")
          /\ lastCall.alloc # "failed" => lastCall'.alloc = "none"]_vars

\* the second of two depth frames at 2x1 or more found the buffer at the
\* right length and attempted no resize
C14_Witness ==
  /\ DepthFrameAtThisSize
  /\ lastCall.alloc = "none"
  /\ Len(depthMap) = lastCall.width * lastCall.height
  /\ Len(depthMap) >= 2
  /\ simTime >= 1

\* the five stream topics of the model
StreamTopics ==
  {"~/rs_camera/rs/stream/depth", "~/rs_camera/rs/stream/depth_view",
   "~/rs_camera/rs/stream/color", "~/rs_camera/rs/stream/infrared",
   "~/rs_camera/rs/stream/infrared2"}

\* the publisher handles the core holds
LiveHandles == {i \in 1..5 : publishers[i] # NULL}

\* C15: in the ready state the core holds exactly five publisher handles,
\* bound one each to the five pairwise distinct topics
\* <model-root>/rs/stream/{depth, depth_view, color, infrared, infrared2};
\* at no time are two live handles bound to the same topic, and a handle once
\* created is never closed or replaced.
C15_FivePublishers ==
  /\ [](status = "ready" =>
         /\ Cardinality(LiveHandles) = 5
         /\ Cardinality(StreamTopics) = 5
         /\ depthViewPub = "~/rs_camera/rs/stream/depth_view"
         /\ depthPub = "~/rs_camera/rs/stream/depth"
         /\ ired1Pub = "~/rs_camera/rs/stream/infrared"
         /\ ired2Pub = "~/rs_camera/rs/stream/infrared2"
         /\ colorPub = "~/rs_camera/rs/stream/color"
         /\ {publishers[i] : i \in LiveHandles} = StreamTopics)
  /\ [](\A i, j \in LiveHandles : i # j => publishers[i] # publishers[j])
  /\ [](status \in {"constructed", "unbound"} => LiveHandles = {})
  /\ [][\A i \in LiveHandles : publishers'[i] = publishers[i]]_vars

\* the five publishers exist and the depth callback has published on two of
\* them
C15_Witness ==
  /\ status = "ready"
  /\ Cardinality(LiveHandles) = 5
  /\ Len(published) = 2
  /\ published[1].pub = depthViewPub
  /\ published[2].pub = depthPub
  /\ published[1].pub # published[2].pub

\* C16: for every message published on any of the five streams, row stride
\* times height equals the payload length in bytes, the view message (payload
\* 4*width*height) and the primary depth message (payload 2*width*height)
\* included.
C16_StrideTimesHeight ==
  lastCall.op \in {"OnNewFrame", "OnNewDepthFrame"} =>
    \A i \in 1..Len(published) :
      published[i].msg.step * published[i].msg.height = published[i].msg.size

\* the sample v passes the near, far and sign tests
WithinClipRange(v) ==
  ~(FloatLess(v, 300) \/ FloatGreater(v, 10000) \/ FloatLess(v, 0))

\* C17: after a depth frame that encodes, every sample of the device depth
\* buffer is 0 or lies in 300..10000; the quotient handed to the uint16 cast
\* is below 65536, so the cast keeps its value; and every sample the overflow
\* test (v > 65.535) rejects is already rejected by the far-clip test
\* (v > 10.0), so the overflow test never decides a result.
C17_SamplesInRange ==
  DepthFrameProcessed =>
    \A i \in 1..Len(depthMap) :
      LET v == lastCall.data[i]
      IN  /\ depthMap[i] = 0 \/ depthMap[i] \in 300..10000
          /\ WithinClipRange(v) =>
               /\ DivScale(v) \in 0..65535
               /\ depthMap[i] = DivScale(v)
          /\ FloatGreater(v, 65535) => FloatGreater(v, 10000)
          /\ FloatGreater(v, 65535) => depthMap[i] = 0

\* a 2x2 depth frame holding 70.0, beyond the overflow bound, and the float
\* just below 0.3 was encoded to zeros
C17_Witness ==
  /\ DepthFrameProcessed
  /\ Len(depthMap) = 4
  /\ \E i \in 1..4 : FloatGreater(lastCall.data[i], 65535) /\ depthMap[i] = 0
  /\ \E i \in 1..4 : lastCall.data[i] = Float32(10066329, -25)

\* the image callback subscribed with conn has its camera cam and its
\* publisher pub
BoundTo(conn, cam, pub) ==
  /\ cam # NULL /\ pub # NULL
  /\ conn.cam = cam /\ conn.pub = pub

\* C18: in every reachable state in which a frame callback can fire, the
\* camera handle it reads and the publishers it publishes to are bound: the
\* depth callback has depthCam, depthViewPub and depthPub, each image callback
\* its own camera and publisher; and every callback that ran read a bound
\* camera and published on bound publishers only.
C18_CallbacksFindHandles ==
  /\ (newDepthFrameConn.cb # NULL \/ ENABLED NewDepthFrame) =>
       depthCam # NULL /\ depthViewPub # NULL /\ depthPub # NULL
  /\ (newIred1FrameConn.cb # NULL \/ ENABLED NewIred1Frame) =>
       BoundTo(newIred1FrameConn, ired1Cam, ired1Pub)
  /\ (newIred2FrameConn.cb # NULL \/ ENABLED NewIred2Frame) =>
       BoundTo(newIred2FrameConn, ired2Cam, ired2Pub)
  /\ (newColorFrameConn.cb # NULL \/ ENABLED NewColorFrame) =>
       BoundTo(newColorFrameConn, colorCam, colorPub)
  /\ lastCall.op \in {"OnNewFrame", "OnNewDepthFrame"} =>
       /\ lastCall.cam # NULL
       /\ \A i \in 1..Len(published) : published[i].pub # NULL

\* the color callback has run in a ready dispatcher and published on the
\* color publisher
C18_Witness ==
  /\ status = "ready"
  /\ lastCall.op = "OnNewFrame"
  /\ lastCall.cam = colorCam
  /\ colorCam # NULL
  /\ Len(published) = 1
  /\ published[1].pub = colorPub

====
